---- MODULE Spec2Model ----
(***************************************************************************)
(* Model of model/vision3d.py: generate_fourier_features and the OSE3D     *)
(* module (constructor and forward pass).  Tensors are modelled by their   *)
(* shape and by symbolic contents: a feature token records where it came   *)
(* from and which embeddings were added to it, the query records the       *)
(* sequence of layer applications that produced it.                        *)
(***************************************************************************)
EXTENDS Integers, Sequences, FiniteSets, TLC

\* ---- bounds of the model ----
MaxB == 2          \* batch sizes 1..MaxB
MaxN == 2          \* objects per batch element 1..MaxN
MaxL == 2          \* cfg.spatial_encoder.num_layers in 0..MaxL

VARIABLES
  self,                 \* the built OSE3D module (flags and layer lists)
  data_dict,            \* the caller's input/output bundle
  pc,                   \* position inside forward
  call,                 \* number of the current forward invocation
  in_masks,             \* data_dict['obj_masks'] as it was on entry of the call
  obj_feats, obj_masks, obj_type_embeds,
  all_obj_feats, all_obj_masks, all_obj_locs, all_obj_type_embeds,
  pairwise_locs,        \* result of calc_pairwise_locs
  n_pairwise,           \* calls of calc_pairwise_locs in this forward pass
  query_feat, query_pos,
  i,                    \* loop index of enumerate(self.spatial_encoder)
  error,                \* exception raised by the current call, "" if none
  returned,             \* what the caller observed after each call
  f_args, f_out, f_pc   \* a call of generate_fourier_features: arguments, result

vars == <<self, data_dict, pc, call, in_masks, obj_feats, obj_masks,
          obj_type_embeds, all_obj_feats, all_obj_masks, all_obj_locs,
          all_obj_type_embeds, pairwise_locs, n_pairwise, query_feat,
          query_pos, i, error, returned, f_args, f_out, f_pc>>

fvars == <<f_args, f_out, f_pc>>

locals == <<obj_feats, obj_masks, obj_type_embeds, all_obj_feats,
            all_obj_masks, all_obj_locs, all_obj_type_embeds, pairwise_locs,
            query_feat, query_pos>>

\* ---- values standing for "not assigned yet" ----
NoFeats == [toks |-> <<>>, nan |-> <<>>]
NoPairwise == [id |-> 0, pos |-> <<>>, size |-> <<>>]
NoQuery == [shape |-> <<>>, term |-> <<>>, nan |-> <<>>]
NoPos == [inst |-> 0 - 1, locs |-> <<>>]

\* ---- construction ----

\* layer_repeat(module, N): a list of N copies of the module
layer_repeat(module, n) == [k \in 1..n |-> [module |-> module, copy |-> k - 1]]

\* variant: a single location-embedding instance whatever the policy
NumLocLayersOne(enc, L) == 1

\* number of location-embedding instances chosen by the constructor
NumLocLayers(enc, L) ==
  IF enc \in {"same_0", "same_all"} THEN 1 ELSE L

OSE3D_init(c) ==
  [use_spatial_attn |-> c.use_spatial_attn,
   use_embodied_token |-> c.use_embodied_token,
   obj_loc_encoding |-> c.obj_loc_encoding,
   spatial_encoder |->
     layer_repeat(IF c.use_spatial_attn THEN "TransformerSpatialEncoderLayer"
                                        ELSE "TransformerEncoderLayer",
                  c.num_layers),
   query_cross_encoder |-> layer_repeat("CrossAttentionLayer", c.num_layers),
   loc_layers |-> layer_repeat("loc_layer",
                               NumLocLayers(c.obj_loc_encoding, c.num_layers))]

Configs ==
  [use_spatial_attn : BOOLEAN, use_embodied_token : BOOLEAN,
   obj_loc_encoding : {"same_0", "same_all", "diff_all"},
   num_layers : 0..MaxL]

\* ---- tensors ----

\* logical not of a boolean mask, elementwise (the ~ operator)
Invert(m) == [b \in DOMAIN m |-> [j \in DOMAIN m[b] |-> ~m[b][j]]]

\* torch.cat((x, y), dim=1)
Cat1(x, y) == [b \in DOMAIN x |-> x[b] \o y[b]]

\* a feature vector: its origin, and how many times the type-0 embedding, the
\* type-1 embedding and a location embedding were added to it
ObjToken(b, j) ==
  [kind |-> "obj", b |-> b, id |-> j, type0 |-> 0, type1 |-> 0, loc |-> 0]
\* anchor_feat + orient_encoder(generate_fourier_features(anchor_orientation))
AnchorToken(b) ==
  [kind |-> "anchor", b |-> b, id |-> 0, type0 |-> 0, type1 |-> 0, loc |-> 0]
ObjLoc(b, j) == [kind |-> "obj", b |-> b, id |-> j]
AnchorLoc(b) == [kind |-> "anchor", b |-> b, id |-> 0]

\* token + embedding of type id t
AddType(tok, t) ==
  IF t = 0 THEN [tok EXCEPT !.type0 = @ + 1] ELSE [tok EXCEPT !.type1 = @ + 1]

\* feats + type_embeds, elementwise
AddEmbeds(feats, embeds) ==
  [feats EXCEPT !.toks =
     [b \in DOMAIN feats.toks |->
        [j \in DOMAIN feats.toks[b] |-> AddType(feats.toks[b][j], embeds[b][j])]]]

\* the input bundle for B batch elements of N objects with valid-mask m
Bundle(B, N, m) ==
  [obj_fts |-> [B |-> B, N |-> N],
   obj_masks |-> m,
   obj_locs |-> [b \in 1..B |-> [j \in 1..N |-> ObjLoc(b, j)]],
   anchor_locs |-> [b \in 1..B |-> AnchorLoc(b)],
   obj_tokens |-> NoFeats]

\* before the first call of forward: nothing computed yet
Fresh ==
  /\ pc = "start"
  /\ call = 1
  /\ in_masks = <<>>
  /\ obj_feats = NoFeats /\ obj_masks = <<>> /\ obj_type_embeds = <<>>
  /\ all_obj_feats = NoFeats /\ all_obj_masks = <<>> /\ all_obj_locs = <<>>
  /\ all_obj_type_embeds = <<>>
  /\ pairwise_locs = NoPairwise /\ n_pairwise = 0
  /\ query_feat = NoQuery /\ query_pos = NoPos
  /\ i = 0
  /\ error = ""
  /\ returned = <<>>

NoArgs == [pos |-> <<>>, num_bands |-> 0, max_freq |-> 0, concat_pos |-> FALSE,
           sine_only |-> FALSE]

Init ==
  /\ \E c \in Configs : self = OSE3D_init(c)
  /\ \E B \in 1..MaxB, N \in 1..MaxN :
       \E m \in [1..B -> [1..N -> BOOLEAN]] : data_dict = Bundle(B, N, m)
  /\ Fresh
  /\ f_args = NoArgs /\ f_out = <<>> /\ f_pc = "off"

\* ---- forward ----

\* variant: the type-0 embeddings are added to the object features at once
EncodeAddsType ==
  /\ pc = "start"
  /\ LET B == data_dict.obj_fts.B
         N == data_dict.obj_fts.N
     IN /\ obj_feats' =
             [toks |-> [b \in 1..B |-> [j \in 1..N |-> AddType(ObjToken(b, j), 0)]],
              nan |-> [b \in 1..B |-> FALSE]]
        /\ obj_masks' = Invert(data_dict.obj_masks)
        /\ obj_type_embeds' = [b \in 1..B |-> [j \in 1..N |-> 0]]
  /\ in_masks' = data_dict.obj_masks
  /\ pc' = "anchor"
  /\ UNCHANGED <<fvars, self, data_dict, call, all_obj_feats, all_obj_masks,
                 all_obj_locs, all_obj_type_embeds, pairwise_locs, n_pairwise,
                 query_feat, query_pos, i, error, returned>>

\* lines 233-241: backbone, projection, mask inversion, type-0 embeddings
Encode ==
  /\ pc = "start"
  /\ LET B == data_dict.obj_fts.B
         N == data_dict.obj_fts.N
     IN /\ obj_feats' = [toks |-> [b \in 1..B |-> [j \in 1..N |-> ObjToken(b, j)]],
                         nan |-> [b \in 1..B |-> FALSE]]
        /\ obj_masks' = Invert(data_dict.obj_masks)
        /\ obj_type_embeds' = [b \in 1..B |-> [j \in 1..N |-> 0]]
  /\ in_masks' = data_dict.obj_masks
  /\ pc' = "anchor"
  /\ UNCHANGED <<fvars, self, data_dict, call, all_obj_feats, all_obj_masks,
                 all_obj_locs, all_obj_type_embeds, pairwise_locs, n_pairwise,
                 query_feat, query_pos, i, error, returned>>

\* variant: anchor_mask built with torch.ones, so the anchor counts as masked
AnchorFusionOnesMask ==
  /\ pc = "anchor"
  /\ self.use_embodied_token
  /\ LET B == data_dict.obj_fts.B
         anchor_feat == [b \in 1..B |-> <<AnchorToken(b)>>]
         anchor_mask == [b \in 1..B |-> <<TRUE>>]
         anchor_loc == [b \in 1..B |-> <<data_dict.anchor_locs[b]>>]
         anchor_type_embed == [b \in 1..B |-> <<1>>]
     IN /\ all_obj_feats' = [obj_feats EXCEPT !.toks = Cat1(anchor_feat, @)]
        /\ all_obj_masks' = Cat1(anchor_mask, obj_masks)
        /\ all_obj_locs' = Cat1(anchor_loc, data_dict.obj_locs)
        /\ all_obj_type_embeds' = Cat1(anchor_type_embed, obj_type_embeds)
  /\ pc' = "type"
  /\ UNCHANGED <<fvars, self, data_dict, call, in_masks, obj_feats, obj_masks,
                 obj_type_embeds, pairwise_locs, n_pairwise, query_feat,
                 query_pos, i, error, returned>>

\* lines 243-264: build the anchor and put it at index 0
AnchorFusion ==
  /\ pc = "anchor"
  /\ self.use_embodied_token
  /\ LET B == data_dict.obj_fts.B
         anchor_feat == [b \in 1..B |-> <<AnchorToken(b)>>]
         anchor_mask == [b \in 1..B |-> <<FALSE>>]
         anchor_loc == [b \in 1..B |-> <<data_dict.anchor_locs[b]>>]
         anchor_type_embed == [b \in 1..B |-> <<1>>]
     IN /\ all_obj_feats' = [obj_feats EXCEPT !.toks = Cat1(anchor_feat, @)]
        /\ all_obj_masks' = Cat1(anchor_mask, obj_masks)
        /\ all_obj_locs' = Cat1(anchor_loc, data_dict.obj_locs)
        /\ all_obj_type_embeds' = Cat1(anchor_type_embed, obj_type_embeds)
  /\ pc' = "type"
  /\ UNCHANGED <<fvars, self, data_dict, call, in_masks, obj_feats, obj_masks,
                 obj_type_embeds, pairwise_locs, n_pairwise, query_feat,
                 query_pos, i, error, returned>>

\* lines 266-271: no anchor, the object set passes through
PassThrough ==
  /\ pc = "anchor"
  /\ ~self.use_embodied_token
  /\ all_obj_feats' = obj_feats
  /\ all_obj_masks' = obj_masks
  /\ all_obj_locs' = data_dict.obj_locs
  /\ all_obj_type_embeds' = obj_type_embeds
  /\ pc' = "type"
  /\ UNCHANGED <<fvars, self, data_dict, call, in_masks, obj_feats, obj_masks,
                 obj_type_embeds, pairwise_locs, n_pairwise, query_feat,
                 query_pos, i, error, returned>>

\* line 273: all_obj_feats = all_obj_feats + all_obj_type_embeds
AddTypeEmbeds ==
  /\ pc = "type"
  /\ all_obj_feats' = AddEmbeds(all_obj_feats, all_obj_type_embeds)
  /\ pc' = "pairwise"
  /\ UNCHANGED <<fvars, self, data_dict, call, in_masks, obj_feats, obj_masks,
                 obj_type_embeds, all_obj_masks, all_obj_locs,
                 all_obj_type_embeds, pairwise_locs, n_pairwise, query_feat,
                 query_pos, i, error, returned>>

\* lines 276-283: calc_pairwise_locs over the centers and sizes of all tokens
CalcPairwise ==
  /\ pc = "pairwise"
  /\ self.use_spatial_attn
  /\ n_pairwise' = n_pairwise + 1
  /\ pairwise_locs' = [id |-> n_pairwise + 1, pos |-> all_obj_locs,
                       size |-> all_obj_locs]
  /\ pc' = "query"
  /\ UNCHANGED <<fvars, self, data_dict, call, in_masks, obj_feats, obj_masks,
                 obj_type_embeds, all_obj_feats, all_obj_masks, all_obj_locs,
                 all_obj_type_embeds, query_feat, query_pos, i, error,
                 returned>>

\* line 276, condition false
SkipPairwise ==
  /\ pc = "pairwise"
  /\ ~self.use_spatial_attn
  /\ pc' = "query"
  /\ UNCHANGED <<fvars, self, data_dict, call, in_masks, locals, n_pairwise, i,
                 error, returned>>

\* line 285: query_feat = torch.zeros_like(all_obj_feats)
ZerosOp(shape) ==
  [op |-> "zeros_like", layer |-> 0 - 1, shape |-> shape, memory |-> NoFeats,
   mask |-> <<>>, pos |-> NoPos, pairwise |-> NoPairwise]

ShapeOf(feats) == [b \in DOMAIN feats.toks |-> Len(feats.toks[b])]

InitQuery ==
  /\ pc = "query"
  /\ query_feat' = [shape |-> ShapeOf(all_obj_feats),
                    term |-> <<ZerosOp(ShapeOf(all_obj_feats))>>,
                    nan |-> [b \in DOMAIN all_obj_feats.toks |-> FALSE]]
  /\ i' = 0
  /\ pc' = "loop"
  /\ UNCHANGED <<fvars, self, data_dict, call, in_masks, obj_feats, obj_masks,
                 obj_type_embeds, all_obj_feats, all_obj_masks, all_obj_locs,
                 all_obj_type_embeds, pairwise_locs, n_pairwise, query_pos,
                 error, returned>>

\* an exception leaves forward: the caller gets no result, data_dict is as it was
Raise(kind) ==
  /\ pc' = "error"
  /\ error' = kind
  /\ returned' = Append(returned, [ok |-> FALSE, obj_tokens |-> NoFeats,
                                   obj_masks |-> <<>>])

\* index of the location-embedding instance used in iteration k (lines 288-291)
LocLayerIndex(enc, k) == IF enc = "diff_all" THEN k ELSE 0

\* lines 287-291: next layer of the loop, query_pos = self.loc_layers[..](all_obj_locs)
LocBias ==
  /\ pc = "loop"
  /\ i < Len(self.spatial_encoder)
  /\ LET idx == LocLayerIndex(self.obj_loc_encoding, i)
     IN IF idx < Len(self.loc_layers)
        THEN /\ query_pos' = [inst |-> self.loc_layers[idx + 1].copy,
                              locs |-> all_obj_locs]
             /\ pc' = "cross"
             /\ UNCHANGED <<error, returned>>
        ELSE /\ Raise("IndexError")
             /\ UNCHANGED query_pos
  /\ UNCHANGED <<fvars, self, data_dict, call, in_masks, obj_feats, obj_masks,
                 obj_type_embeds, all_obj_feats, all_obj_masks, all_obj_locs,
                 all_obj_type_embeds, pairwise_locs, n_pairwise, query_feat, i>>

\* nn.MultiheadAttention requires key_padding_mask of shape (B, memory length)
MaskFits(mask, feats) ==
  /\ DOMAIN mask = DOMAIN feats.toks
  /\ \A b \in DOMAIN mask : Len(mask[b]) = Len(feats.toks[b])

\* feats + query_pos, elementwise
AddPos(feats) ==
  [feats EXCEPT !.toks =
     [b \in DOMAIN feats.toks |->
        [j \in DOMAIN feats.toks[b] |-> [feats.toks[b][j] EXCEPT !.loc = @ + 1]]]]

CrossOps(layer, q, memory, mask, pos) ==
  << [op |-> "cross", layer |-> layer, shape |-> q.shape, memory |-> memory,
      mask |-> mask, pos |-> pos, pairwise |-> NoPairwise],
     [op |-> "add", layer |-> 0 - 1, shape |-> q.shape, memory |-> NoFeats,
      mask |-> <<>>, pos |-> pos, pairwise |-> NoPairwise] >>

\* variant: lines 293-294 active, the location bias is added to the features
CrossAttendAddsPos ==
  /\ pc = "cross"
  /\ IF MaskFits(all_obj_masks, all_obj_feats)
     THEN /\ all_obj_feats' =
               IF self.obj_loc_encoding = "same_0" /\ i > 0
               THEN all_obj_feats ELSE AddPos(all_obj_feats)
          /\ query_feat' =
               [query_feat EXCEPT !.term = @ \o
                  CrossOps(self.query_cross_encoder[i + 1].copy, query_feat,
                           all_obj_feats', all_obj_masks, query_pos)]
          /\ pc' = "self"
          /\ UNCHANGED <<error, returned>>
     ELSE /\ Raise("ShapeError")
          /\ UNCHANGED <<query_feat, all_obj_feats>>
  /\ UNCHANGED <<fvars, self, data_dict, call, in_masks, obj_feats, obj_masks,
                 obj_type_embeds, all_obj_masks, all_obj_locs,
                 all_obj_type_embeds, pairwise_locs, n_pairwise, query_pos, i>>

\* variant: the location bias is not added to the result of cross-attention
CrossAttendNoResidual ==
  /\ pc = "cross"
  /\ IF MaskFits(all_obj_masks, all_obj_feats)
     THEN /\ query_feat' =
               [query_feat EXCEPT !.term = Append(@,
                  CrossOps(self.query_cross_encoder[i + 1].copy, query_feat,
                           all_obj_feats, all_obj_masks, query_pos)[1])]
          /\ pc' = "self"
          /\ UNCHANGED <<error, returned>>
     ELSE /\ Raise("ShapeError")
          /\ UNCHANGED query_feat
  /\ UNCHANGED <<fvars, self, data_dict, call, in_masks, obj_feats, obj_masks,
                 obj_type_embeds, all_obj_feats, all_obj_masks, all_obj_locs,
                 all_obj_type_embeds, pairwise_locs, n_pairwise, query_pos, i>>

\* line 295: query_feat = self.query_cross_encoder[i](tgt=query_feat,
\*   memory=all_obj_feats, memory_key_padding_mask=all_obj_masks,
\*   query_pos=query_pos, pos=query_pos) + query_pos
\* add_zero_attn=True (lines 62-64) appends a key that is never masked, so the
\* softmax over a fully masked memory is defined: no new NaN arises here.
CrossAttend ==
  /\ pc = "cross"
  /\ IF MaskFits(all_obj_masks, all_obj_feats)
     THEN /\ query_feat' =
               [query_feat EXCEPT !.term = @ \o
                  CrossOps(self.query_cross_encoder[i + 1].copy, query_feat,
                           all_obj_feats, all_obj_masks, query_pos)]
          /\ pc' = "self"
          /\ UNCHANGED <<error, returned>>
     ELSE /\ Raise("ShapeError")
          /\ UNCHANGED query_feat
  /\ UNCHANGED <<fvars, self, data_dict, call, in_masks, obj_feats, obj_masks,
                 obj_type_embeds, all_obj_feats, all_obj_masks, all_obj_locs,
                 all_obj_type_embeds, pairwise_locs, n_pairwise, query_pos, i>>

\* every key of batch element b is masked
FullyMasked(mask, b) == \A j \in DOMAIN mask[b] : mask[b][j]

SelfOp(layer, q, mask, pairwise) ==
  [op |-> "self", layer |-> layer, shape |-> q.shape, memory |-> NoFeats,
   mask |-> mask, pos |-> NoPos, pairwise |-> pairwise]

\* variant: calc_pairwise_locs is called again inside the loop
SelfAttendRecomputes ==
  /\ pc = "self"
  /\ n_pairwise' = IF self.use_spatial_attn THEN n_pairwise + 1 ELSE n_pairwise
  /\ pairwise_locs' =
       IF self.use_spatial_attn
       THEN [id |-> n_pairwise + 1, pos |-> all_obj_locs, size |-> all_obj_locs]
       ELSE pairwise_locs
  /\ \E fresh \in [DOMAIN query_feat.nan -> BOOLEAN] :
       /\ \A b \in DOMAIN fresh : fresh[b] => FullyMasked(all_obj_masks, b)
       /\ query_feat' =
            [query_feat EXCEPT
               !.term = Append(@,
                  SelfOp(self.spatial_encoder[i + 1].copy, query_feat, all_obj_masks,
                         IF self.use_spatial_attn THEN pairwise_locs'
                                                  ELSE NoPairwise)),
               !.nan = [b \in DOMAIN fresh |-> query_feat.nan[b] \/ fresh[b]]]
  /\ i' = i + 1
  /\ pc' = "loop"
  /\ UNCHANGED <<fvars, self, data_dict, call, in_masks, obj_feats, obj_masks,
                 obj_type_embeds, all_obj_feats, all_obj_masks, all_obj_locs,
                 all_obj_type_embeds, query_pos, error, returned>>

\* lines 297-306: query_feat, _ = pc_layer(query_feat, [pairwise_locs,]
\*   tgt_key_padding_mask=all_obj_masks)
\* The self-attention layer is outside this file and has no zero-attention
\* key: over a fully masked row its softmax may or may not yield NaN.
SelfAttend ==
  /\ pc = "self"
  /\ \E fresh \in [DOMAIN query_feat.nan -> BOOLEAN] :
       /\ \A b \in DOMAIN fresh : fresh[b] => FullyMasked(all_obj_masks, b)
       /\ query_feat' =
            [query_feat EXCEPT
               !.term = Append(@,
                  SelfOp(self.spatial_encoder[i + 1].copy, query_feat, all_obj_masks,
                         IF self.use_spatial_attn THEN pairwise_locs
                                                  ELSE NoPairwise)),
               !.nan = [b \in DOMAIN fresh |-> query_feat.nan[b] \/ fresh[b]]]
  /\ i' = i + 1
  /\ pc' = "loop"
  /\ UNCHANGED <<fvars, self, data_dict, call, in_masks, obj_feats, obj_masks,
                 obj_type_embeds, all_obj_feats, all_obj_masks, all_obj_locs,
                 all_obj_type_embeds, pairwise_locs, n_pairwise, query_pos,
                 error, returned>>

\* variant: the mask is written back without inverting it
WriteBackNoInvert ==
  /\ pc = "loop"
  /\ i >= Len(self.spatial_encoder)
  /\ data_dict' = [data_dict EXCEPT !.obj_tokens = all_obj_feats,
                                    !.obj_masks = all_obj_masks]
  /\ returned' = Append(returned, [ok |-> TRUE, obj_tokens |-> all_obj_feats,
                                   obj_masks |-> all_obj_masks])
  /\ pc' = "done"
  /\ UNCHANGED <<fvars, self, call, in_masks, locals, n_pairwise, i, error>>

\* variant: the refined query is returned as obj_tokens
WriteBackQuery ==
  /\ pc = "loop"
  /\ i >= Len(self.spatial_encoder)
  /\ data_dict' = [data_dict EXCEPT !.obj_tokens = query_feat,
                                    !.obj_masks = Invert(all_obj_masks)]
  /\ returned' = Append(returned, [ok |-> TRUE, obj_tokens |-> query_feat,
                                   obj_masks |-> Invert(all_obj_masks)])
  /\ pc' = "done"
  /\ UNCHANGED <<fvars, self, call, in_masks, locals, n_pairwise, i, error>>

\* lines 308-311: write the outputs into the bundle and return it
WriteBack ==
  /\ pc = "loop"
  /\ i >= Len(self.spatial_encoder)
  /\ data_dict' = [data_dict EXCEPT !.obj_tokens = all_obj_feats,
                                    !.obj_masks = Invert(all_obj_masks)]
  /\ returned' = Append(returned, [ok |-> TRUE, obj_tokens |-> all_obj_feats,
                                   obj_masks |-> Invert(all_obj_masks)])
  /\ pc' = "done"
  /\ UNCHANGED <<fvars, self, call, in_masks, locals, n_pairwise, i, error>>

\* the caller invokes forward a second time on the same bundle, changing no
\* field; the new invocation starts with a fresh frame of locals
CallAgain ==
  /\ pc \in {"done", "error"}
  /\ call = 1
  /\ call' = call + 1
  /\ pc' = "start"
  /\ error' = ""
  /\ in_masks' = <<>>
  /\ obj_feats' = NoFeats /\ obj_masks' = <<>> /\ obj_type_embeds' = <<>>
  /\ all_obj_feats' = NoFeats /\ all_obj_masks' = <<>> /\ all_obj_locs' = <<>>
  /\ all_obj_type_embeds' = <<>>
  /\ pairwise_locs' = NoPairwise /\ n_pairwise' = 0
  /\ query_feat' = NoQuery /\ query_pos' = NoPos
  /\ i' = 0
  /\ UNCHANGED <<fvars, self, data_dict, returned>>

Next ==
  \/ Encode
  \/ AnchorFusion
  \/ PassThrough
  \/ AddTypeEmbeds
  \/ CalcPairwise
  \/ SkipPairwise
  \/ InitQuery
  \/ LocBias
  \/ CrossAttend
  \/ SelfAttend
  \/ WriteBack
  \/ CallAgain

Spec == Init /\ [][Next]_vars

\* ---- generate_fourier_features ----

MaxC == 2          \* width C of the input in 1..MaxC
MaxBands == 3      \* num_bands in 1..MaxBands
MaxFreq == 3       \* max_freq in 1..MaxFreq
MaxPos == 1        \* input components in 0..MaxPos
min_freq == 1

\* freq_bands = torch.linspace(start=min_freq, end=max_freq, steps=num_bands):
\* band k (from 0) is min_freq + k * (max_freq - min_freq) / (num_bands - 1),
\* kept as the fraction FreqNum / FreqDen
FreqDen(num_bands) == IF num_bands = 1 THEN 1 ELSE num_bands - 1
FreqNum(max_freq, num_bands, k) ==
  min_freq * FreqDen(num_bands) + k * (max_freq - min_freq)

\* torch.sin(np.pi * x), torch.cos(np.pi * x) and an untouched input value
Sin(x) == [fn |-> "sin", num |-> x.num, den |-> x.den]
Cos(x) == [fn |-> "cos", num |-> x.num, den |-> x.den]
Raw(p) == [fn |-> "id", num |-> p, den |-> 1]

\* variant: the raw position is concatenated after the sine/cosine features
fourier_features_pos_last(pos, num_bands, max_freq, concat_pos, sine_only) ==
  LET C == Len(pos)
      grid == [c \in 1..C |-> [k \in 1..num_bands |->
                 [num |-> pos[c] * FreqNum(max_freq, num_bands, k - 1),
                  den |-> FreqDen(num_bands)]]]
      flat == [x \in 1..(C * num_bands) |->
                 grid[((x - 1) \div num_bands) + 1][((x - 1) % num_bands) + 1]]
      sines == [x \in DOMAIN flat |-> Sin(flat[x])]
      cosines == [x \in DOMAIN flat |-> Cos(flat[x])]
      per_pos_features == IF sine_only THEN sines ELSE sines \o cosines
  IN IF concat_pos
     THEN per_pos_features \o [c \in 1..C |-> Raw(pos[c])]
     ELSE per_pos_features

\* the feature axis of one position vector pos (the batch and sequence axes are
\* carried through unchanged by every step)
generate_fourier_features(pos, num_bands, max_freq, concat_pos, sine_only) ==
  LET C == Len(pos)
      \* pos.unsqueeze(-1).repeat(1, 1, 1, num_bands) * freq_bands
      grid == [c \in 1..C |-> [k \in 1..num_bands |->
                 [num |-> pos[c] * FreqNum(max_freq, num_bands, k - 1),
                  den |-> FreqDen(num_bands)]]]
      \* torch.reshape(.., [batch_size, -1, C * num_bands]): row-major
      flat == [x \in 1..(C * num_bands) |->
                 grid[((x - 1) \div num_bands) + 1][((x - 1) % num_bands) + 1]]
      sines == [x \in DOMAIN flat |-> Sin(flat[x])]
      cosines == [x \in DOMAIN flat |-> Cos(flat[x])]
      per_pos_features == IF sine_only THEN sines ELSE sines \o cosines
  IN IF concat_pos
     THEN [c \in 1..C |-> Raw(pos[c])] \o per_pos_features
     ELSE per_pos_features

FourierArgs ==
  { [pos |-> p, num_bands |-> nb, max_freq |-> mf, concat_pos |-> cp,
     sine_only |-> so] :
      p \in UNION { [1..C -> 0..MaxPos] : C \in 1..MaxC },
      nb \in 1..MaxBands, mf \in 1..MaxFreq, cp \in BOOLEAN, so \in BOOLEAN }

FourierInit ==
  /\ self = OSE3D_init([use_spatial_attn |-> FALSE, use_embodied_token |-> TRUE,
                        obj_loc_encoding |-> "same_0", num_layers |-> 0])
  /\ data_dict = Bundle(1, 1, <<<<TRUE>>>>)
  /\ Fresh
  /\ f_args \in FourierArgs /\ f_out = <<>> /\ f_pc = "call"

FourierApply ==
  /\ f_pc = "call"
  /\ f_out' = generate_fourier_features(f_args.pos, f_args.num_bands,
                 f_args.max_freq, f_args.concat_pos, f_args.sine_only)
  /\ f_pc' = "done"
  /\ UNCHANGED <<f_args, self, data_dict, pc, call, in_masks, locals,
                 n_pairwise, i, error, returned>>

FourierNext == FourierApply

FourierSpec == FourierInit /\ [][FourierNext]_vars

\* ---- properties ----

embodied == self.use_embodied_token
L == Len(self.spatial_encoder)
InLoop == pc \in {"loop", "cross", "self"}
Batch == 1..data_dict.obj_fts.B
NObj == data_dict.obj_fts.N
AfterTypeAdd == pc \in {"pairwise", "query", "loop", "cross", "self", "done", "error"}
SelfOpsOf(term) == {x \in DOMAIN term : term[x].op = "self"}

\* C1: in every configuration the obj_tokens written on return are the
\* augmented feature sequence as it stood when the layer loop was entered: no
\* step of the loop changes the feature sequence, and what is written to
\* obj_tokens is that sequence, not the query.
C1_TokensAreFeatures ==
  [][InLoop => /\ all_obj_feats' = all_obj_feats
               /\ (pc' = "done" => /\ data_dict'.obj_tokens = all_obj_feats
                                   /\ returned'[Len(returned')].obj_tokens
                                        = all_obj_feats)]_vars

C1_Witness ==
  /\ pc = "done" /\ L >= 2 /\ Len(query_feat.term) > 1
  /\ data_dict.obj_tokens = all_obj_feats
  /\ \A b \in Batch : Len(data_dict.obj_tokens.toks[b]) >= NObj

\* C2: without the embodied token, the obj_masks written back on return equal
\* the obj_masks the call was entered with, element for element, with shape
\* B x N.
C2_MaskRoundTrip ==
  (pc = "done" /\ ~embodied) =>
     /\ data_dict.obj_masks = in_masks
     /\ DOMAIN data_dict.obj_masks = Batch
     /\ \A b \in Batch : Len(data_dict.obj_masks[b]) = NObj

C2_Witness ==
  /\ pc = "done" /\ ~embodied /\ L >= 1
  /\ \E b \in Batch : \E j, k \in 1..NObj : in_masks[b][j] /\ ~in_masks[b][k]
  /\ data_dict.obj_masks = in_masks

\* C3: with the embodied token and an input mask over the N objects, the
\* returned obj_tokens and obj_masks have length N+1, index 0 is the anchor and
\* is valid whatever the input mask holds, and the entries after it are the
\* input mask values in their order.
C3_AnchorFirstAndValid ==
  (pc = "done" /\ embodied /\ \A b \in Batch : Len(in_masks[b]) = NObj) =>
     \A b \in Batch :
        /\ Len(data_dict.obj_tokens.toks[b]) = NObj + 1
        /\ Len(data_dict.obj_masks[b]) = NObj + 1
        /\ data_dict.obj_tokens.toks[b][1].kind = "anchor"
        /\ data_dict.obj_masks[b][1] = TRUE
        /\ \A j \in 1..NObj :
             /\ data_dict.obj_masks[b][j + 1] = in_masks[b][j]
             /\ data_dict.obj_tokens.toks[b][j + 1].kind = "obj"
             /\ data_dict.obj_tokens.toks[b][j + 1].id = j

C3_Witness ==
  /\ pc = "done" /\ embodied /\ L >= 1 /\ NObj >= 2
  /\ \E b \in Batch :
       /\ Len(in_masks[b]) = NObj
       /\ \A j \in 1..NObj : ~in_masks[b][j]
       /\ data_dict.obj_masks[b] = <<TRUE>> \o in_masks[b]

\* C4: without the embodied token forward never raises, and for a batch
\* element whose input mask is all false the returned obj_tokens hold no
\* undefined value, also when the query became undefined in the loop.
C4_NoNaNInTokens ==
  ~embodied =>
     /\ pc # "error" /\ error = ""
     /\ pc = "done" =>
          \A b \in Batch :
             (\A j \in 1..NObj : ~in_masks[b][j]) => ~data_dict.obj_tokens.nan[b]

C4_Witness ==
  /\ pc = "done" /\ ~embodied
  /\ \E b \in Batch :
       /\ \A j \in 1..NObj : ~in_masks[b][j]
       /\ query_feat.nan[b]
       /\ ~data_dict.obj_tokens.nan[b]

\* C5: every call of forward on the same bundle succeeds and returns the same
\* obj_tokens and obj_masks as the first call.
C5_RepeatedCallSame ==
  \A k \in DOMAIN returned : returned[k].ok /\ returned[k] = returned[1]

\* C6: with spatial attention, calc_pairwise_locs is called exactly once per
\* forward pass, before the loop, over the locations of all tokens of the
\* augmented sequence, and every spatial self-attention layer receives that
\* same matrix.
C6_PairwiseOnce ==
  (self.use_spatial_attn /\ pc # "start") =>
     /\ pc \in {"anchor", "type", "pairwise"} => n_pairwise = 0
     /\ pc \in {"query", "loop", "cross", "self", "done", "error"} =>
          /\ n_pairwise = 1
          /\ pairwise_locs.pos = all_obj_locs /\ pairwise_locs.size = all_obj_locs
          /\ \A b \in Batch : Len(pairwise_locs.pos[b]) = Len(all_obj_feats.toks[b])
          /\ \A x \in SelfOpsOf(query_feat.term) :
               query_feat.term[x].pairwise = pairwise_locs
     /\ pc = "done" => Cardinality(SelfOpsOf(query_feat.term)) = L

C6_Witness ==
  /\ pc = "done" /\ self.use_spatial_attn /\ embodied /\ L >= 2
  /\ n_pairwise = 1
  /\ Cardinality(SelfOpsOf(query_feat.term)) = L
  /\ pairwise_locs.pos[1][1].kind = "anchor"

\* C7 as stated: the type-0 embedding is in the object features before anchor
\* handling, and with the embodied token the embeddings of the augmented
\* sequence are added again afterwards.
C7_TypeAddedTwice ==
  /\ pc = "anchor" =>
       \A b \in Batch : \A j \in 1..NObj : obj_feats.toks[b][j].type0 = 1
  /\ (pc = "done" /\ embodied) =>
       \A b \in Batch :
          /\ data_dict.obj_tokens.toks[b][1].type1 = 1
          /\ \A j \in 1..NObj : data_dict.obj_tokens.toks[b][j + 1].type0 = 2

\* C7 amended: before anchor handling the type-0 embeddings are only looked
\* up; the type embeddings are added to the features exactly once, after
\* anchor handling: type 1 to the anchor at index 0 (embodied mode) and type 0
\* to every object.
C7_TypeAddedOnce ==
  /\ pc = "anchor" =>
       \A b \in Batch : \A j \in 1..NObj :
          /\ obj_feats.toks[b][j].type0 = 0 /\ obj_feats.toks[b][j].type1 = 0
          /\ obj_type_embeds[b][j] = 0
  /\ pc = "type" =>
       \A b \in Batch : \A j \in DOMAIN all_obj_feats.toks[b] :
          all_obj_feats.toks[b][j].type0 = 0 /\ all_obj_feats.toks[b][j].type1 = 0
  /\ AfterTypeAdd =>
       \A b \in Batch : \A j \in DOMAIN all_obj_feats.toks[b] :
          LET t == all_obj_feats.toks[b][j]
          IN /\ t.kind = "anchor" <=> (embodied /\ j = 1)
             /\ t.kind = "anchor" => (t.type1 = 1 /\ t.type0 = 0)
             /\ t.kind = "obj" => (t.type0 = 1 /\ t.type1 = 0)

C7_Witness ==
  /\ pc = "done" /\ embodied /\ NObj >= 2
  /\ data_dict.obj_tokens.toks[1][1].type1 = 1
  /\ data_dict.obj_tokens.toks[1][2].type0 = 1
  /\ data_dict.obj_tokens.toks[1][3].type0 = 1

\* C8: the constructor builds L location-embedding instances for diff_all and
\* one for same_0 and same_all, and the instance forward indexes in iteration
\* i (i for diff_all, 0 otherwise) exists.
C8_LocLayerCount ==
  /\ Len(self.loc_layers) =
       (IF self.obj_loc_encoding = "diff_all" THEN L ELSE 1)
  /\ error # "IndexError"
  /\ pc \in {"cross", "self"} =>
       /\ query_pos.inst = (IF self.obj_loc_encoding = "diff_all" THEN i ELSE 0)
       /\ \E k \in DOMAIN self.loc_layers : self.loc_layers[k].copy = query_pos.inst

C8_Witness ==
  /\ self.obj_loc_encoding = "diff_all" /\ L >= 2
  /\ pc = "cross" /\ i = L - 1 /\ query_pos.inst = L - 1
  /\ Len(self.loc_layers) = L

\* the phase of component c and band k (from 1) of the current call
Phase(c, k) ==
  [num |-> f_args.pos[c] * FreqNum(f_args.max_freq, f_args.num_bands, k - 1),
   den |-> FreqDen(f_args.num_bands)]

FourierWidth ==
  Len(f_args.pos) * f_args.num_bands * (IF f_args.sine_only THEN 1 ELSE 2)
    + (IF f_args.concat_pos THEN Len(f_args.pos) ELSE 0)

\* the output holds, from offset off on, the sine block and then (unless
\* sine_only) the cosine block, and the raw position from offset rawoff on
FourierLayout(off, rawoff) ==
  LET C == Len(f_args.pos)
      nb == f_args.num_bands
  IN /\ Len(f_out) = FourierWidth
     /\ \A c \in 1..C : \A k \in 1..nb :
          /\ f_out[off + (c - 1) * nb + k] = Sin(Phase(c, k))
          /\ ~f_args.sine_only =>
               f_out[off + C * nb + (c - 1) * nb + k] = Cos(Phase(c, k))
     /\ f_args.concat_pos =>
          \A c \in 1..C : f_out[rawoff + c] = Raw(f_args.pos[c])

\* C9 as stated: the sine block comes first, then the cosine block, and the
\* raw position is appended last.
C9_RawPositionLast ==
  f_pc = "done" => FourierLayout(0, FourierWidth - Len(f_args.pos))

\* C9 amended: the raw position (when concat_pos) comes first, then the sine
\* block, then the cosine block (unless sine_only); the width is C*num_bands
\* or 2*C*num_bands, plus C when concat_pos.
C9_RawPositionFirst ==
  f_pc = "done" =>
     FourierLayout(IF f_args.concat_pos THEN Len(f_args.pos) ELSE 0, 0)

C9_Witness ==
  /\ f_pc = "done" /\ f_args.concat_pos /\ ~f_args.sine_only
  /\ Len(f_args.pos) = 2 /\ f_args.num_bands >= 2 /\ f_args.max_freq >= 2
  /\ f_args.pos[1] # f_args.pos[2]
  /\ f_out[1] = Raw(f_args.pos[1])
  /\ f_out[Len(f_out)].fn = "cos"

\* the location bias of iteration k (from 0)
ExpectedPos(k) ==
  [inst |-> IF self.obj_loc_encoding = "diff_all" THEN k ELSE 0,
   locs |-> all_obj_locs]

ExpectedShape == [b \in Batch |-> Len(all_obj_feats.toks[b])]

\* the query after cross-attention layer k and the added location bias,
\* given the query q before it
ExpectedCross(q, k) ==
  q \o << [op |-> "cross", layer |-> k, shape |-> ExpectedShape,
           memory |-> all_obj_feats, mask |-> all_obj_masks,
           pos |-> ExpectedPos(k), pairwise |-> NoPairwise],
          [op |-> "add", layer |-> 0 - 1, shape |-> ExpectedShape,
           memory |-> NoFeats, mask |-> <<>>, pos |-> ExpectedPos(k),
           pairwise |-> NoPairwise] >>

\* the query entering iteration k (from 0)
RECURSIVE ExpectedQuery(_)
ExpectedQuery(k) ==
  IF k = 0
  THEN << [op |-> "zeros_like", layer |-> 0 - 1, shape |-> ExpectedShape,
           memory |-> NoFeats, mask |-> <<>>, pos |-> NoPos,
           pairwise |-> NoPairwise] >>
  ELSE Append(ExpectedCross(ExpectedQuery(k - 1), k - 1),
              [op |-> "self", layer |-> k - 1, shape |-> ExpectedShape,
               memory |-> NoFeats, mask |-> all_obj_masks, pos |-> NoPos,
               pairwise |-> IF self.use_spatial_attn THEN pairwise_locs
                                                     ELSE NoPairwise])

\* C10: the loop starts from a zero query of the shape of the augmented
\* features and runs L iterations in index order; iteration i computes the
\* location bias, applies cross-attention layer i over the augmented features
\* and mask and adds the bias, then applies self-attention layer i with the
\* same mask, and its output is the query of iteration i+1.
C10_LoopOrder ==
  /\ pc = "loop" => (i <= L /\ query_feat.term = ExpectedQuery(i))
  /\ pc = "cross" =>
       (i < L /\ query_pos = ExpectedPos(i) /\ query_feat.term = ExpectedQuery(i))
  /\ pc = "self" =>
       (i < L /\ query_feat.term = ExpectedCross(ExpectedQuery(i), i))
  /\ pc = "done" =>
       (i = L /\ query_feat.term = ExpectedQuery(L) /\ query_feat.shape = ExpectedShape)

C10_Witness ==
  /\ pc = "done" /\ L >= 2 /\ i = L
  /\ Len(query_feat.term) = 1 + 3 * L
  /\ query_feat.term[1].op = "zeros_like"
  /\ query_feat.term[Len(query_feat.term)].layer = L - 1
====
